---- MODULE Spec2Model ----
(***************************************************************************)
(* B-tree node reserve of livefiles_hfs (lf_hfs_btree_node_reserve.c).     *)
(*                                                                         *)
(* Threads call BTReserveSpace, BTReleaseReserve and BTUpdateReserve.  The *)
(* reserve records live in caller-supplied nreserve structures that are    *)
(* chained into the buckets of nr_hashtbl (a <sys/queue.h> LIST) under     *)
(* nr_mutex.  The list is modelled at the level of its pointers (lh_first, *)
(* le_next, le_prev), so that a structure handed in twice is linked the    *)
(* way the macros link it.                                                 *)
(*                                                                         *)
(* The diagnostic counters nrinserts and nrdeletes are written and never   *)
(* read; they are left out.                                                *)
(***************************************************************************)
EXTENDS Integers, Sequences, FiniteSets, TLC

\* ---------------------------------------------------------------- bounds
\* largest tree depth, insert count and delete count the estimator is tried on
MaxHeight == 4
MaxInserts == 3
MaxDeletes == 3
\* the most nodes held in reserve over all trees (a persistent reserve that
\* would pass it is not issued)
MaxReserved == 3
\* cap on nr_newnodes (an update that would pass it is not issued)
MaxNewNodes == 1
\* the most nodes the volume has room to grow a tree to (ExtendBTree fails beyond)
MaxTotalNodes == 9
\* with calls interleaved, a reserve is entered only while fewer nodes than
\* this are held in reserve
MaxBusyReserved == 2

\* ------------------------------------------------------- program constants
ENOSPC == 28
NR_CACHE == 17
HFS_BT_MAXRESERVE == 10485760
NULL == 0

\* ---------------------------------------------------------- the universe
\* pthread_self() of the two threads (NR_GET_TAG)
Threads == {16, 32}
\* the b-tree file vnodes (btree->fileRefNum); both hash with a thread to the
\* same bucket as the other tree does, so a chain holds records of both trees
Trees == {256, 4352}
\* the caller-supplied struct nreserve (cat_cookie_t) storage
Slots == {1, 2, 3}
\* what a thread passes as data: a structure of its own, or (the first
\* thread) NULL for a request that is not persistent
Data(o) == IF o = 16 THEN {1, 2, NULL} ELSE {3}
\* the trees a thread works on: the first thread on both, the second on the
\* first tree
Files(o) == IF o = 16 THEN Trees ELSE {256}
NoThread == 0

VARIABLES
    btree,         \* btree[t]: the BTreeControlBlock of tree t
    ff_clumpsize,  \* ff_clumpsize[t]: file->ff_clumpsize of the tree's FCB
    hfsmp,         \* the volume: allocLimit, blockSize
    nr_hashtbl,    \* nr_hashtbl[b]: lh_first of bucket b
    nreserve,      \* nreserve[s]: the fields of the struct nreserve at slot s
    nr_mutex,      \* the thread holding nr_mutex, or NoThread
    fileLock,      \* fileLock[t]: the thread holding the tree's exclusive lock
    th,            \* th[o]: where thread o is in its call, and its locals
    aborted        \* hfs_assert(0) has ended the process

vars == <<btree, ff_clumpsize, hfsmp, nr_hashtbl, nreserve, nr_mutex, fileLock, th, aborted>>

\* ----------------------------------------------------------- bit helpers
RECURSIVE BitXor(_, _)
BitXor(a, b) ==
    IF a = 0 /\ b = 0 THEN 0
    ELSE (((a % 2) + (b % 2)) % 2) + 2 * BitXor(a \div 2, b \div 2)

RECURSIVE BitAnd(_, _)
BitAnd(a, b) ==
    IF a = 0 \/ b = 0 THEN 0
    ELSE ((a % 2) * (b % 2)) + 2 * BitAnd(a \div 2, b \div 2)

RECURSIVE Pow2Floor(_)
Pow2Floor(n) == IF n < 2 THEN 1 ELSE 2 * Pow2Floor(n \div 2)

\* hashinit(NR_CACHE, &nr_hashmask): the table has the largest power of two
\* of buckets that is <= NR_CACHE, and the mask is that size minus one
nr_hashmask == Pow2Floor(NR_CACHE) - 1

Buckets == 0..nr_hashmask

\* NR_HASH(btvp, tag): the bucket of a (vnode, tag) pair
NR_HASH(btvp, tag) == BitAnd(BitXor(btvp \div 256, tag \div 16), nr_hashmask)

Min(a, b) == IF a < b THEN a ELSE b

\* ------------------------------------------------------------- the volume
\* what hfs_freeblks(hfsmp, 0) can answer when BTReserveSpace asks
FreeBlks == {40, 52, 100}

\* what a failing ExtendBTree returns (dskFulErr, EIO)
ExtendErrs == {-34, 5}

\* the packed operations words the catalog layer passes: inserts in the low
\* 16 bits, deletes above them
Pack(i, d) == i + (65536 * d)
Operations == {Pack(1, 0), Pack(0, 1), Pack(1, 1)}

\* the operations words a thread passes: the first thread all of them, the
\* second thread single deletes
Ops(o) == IF o = 16 THEN Operations ELSE {Pack(0, 1)}

\* the node counts BTUpdateReserve is called with, by the first thread for
\* the first tree
UpdateNodes == {1}
UpdateThreads == {16}
UpdateFiles == {256}

\* --------------------------------------------------------- struct nreserve
PtrNull == [k |-> "null", i |-> 0]
\* &nr_hashtbl[b].lh_first
PtrHead(b) == [k |-> "head", i |-> b]
\* &nreserve[s].nr_hash.le_next
PtrNext(s) == [k |-> "next", i |-> s]

\* a struct nreserve after bzero()
Zeroed ==
    [le_next |-> NULL, le_prev |-> PtrNull,
     nr_nodecnt |-> 0, nr_newnodes |-> 0, nr_btvp |-> NULL, nr_tag |-> NULL]

\* *p = v for a pointer p to a list link
Store(tbl, nr, p, v) ==
    IF p.k = "head" THEN <<[tbl EXCEPT ![p.i] = v], nr>>
    ELSE IF p.k = "next" THEN <<tbl, [nr EXCEPT ![p.i].le_next = v]>>
    ELSE <<tbl, nr>>

\* LIST_INSERT_HEAD(&nr_hashtbl[b], elm, nr_hash), statement by statement
LIST_INSERT_HEAD(tbl, nr, b, elm) ==
    LET first == tbl[b]
        nr1 == [nr EXCEPT ![elm].le_next = first]
        nr2 == IF first # NULL THEN [nr1 EXCEPT ![first].le_prev = PtrNext(elm)] ELSE nr1
        tbl1 == [tbl EXCEPT ![b] = elm]
        nr3 == [nr2 EXCEPT ![elm].le_prev = PtrHead(b)]
    IN  <<tbl1, nr3>>

\* LIST_REMOVE(elm, nr_hash), statement by statement
LIST_REMOVE(tbl, nr, elm) ==
    LET nxt == nr[elm].le_next
        nr1 == IF nxt # NULL THEN [nr EXCEPT ![nxt].le_prev = nr[elm].le_prev] ELSE nr
    IN  Store(tbl, nr1, nr1[elm].le_prev, nr1[elm].le_next)

\* the for loop of nr_insert and nr_update over one hash chain: the first
\* element with this tag and vnode, NULL when the chain ends without one, and
\* Forever when the chain is a cycle without one (the loop never ends)
Forever == -1
RECURSIVE Walk(_, _, _, _, _)
Walk(nr, cur, tag, btvp, n) ==
    IF cur = NULL THEN NULL
    ELSE IF n = 0 THEN Forever
    ELSE IF nr[cur].nr_tag = tag /\ nr[cur].nr_btvp = btvp THEN cur
    ELSE Walk(nr, nr[cur].le_next, tag, btvp, n - 1)

Lookup(tbl, nr, btvp, tag) ==
    \* after Cardinality(Slots) elements the next one has been seen before
    Walk(nr, tbl[NR_HASH(btvp, tag)], tag, btvp, Cardinality(Slots))

\* the elements on the chain of bucket b
RECURSIVE ChainFrom(_, _, _)
ChainFrom(nr, cur, seen) ==
    IF cur = NULL \/ cur \in seen THEN seen
    ELSE ChainFrom(nr, nr[cur].le_next, seen \cup {cur})

Chain(tbl, nr, b) == ChainFrom(nr, tbl[b], {})

\* the records linked in the ledger
Linked(tbl, nr) == UNION {Chain(tbl, nr, b) : b \in Buckets}

\* ------------------------------------------------------ BTReserveSpace
\* inserts = operations & 0xffff
Inserts(operations) == BitAnd(operations, 65535)
\* deletes = operations >> 16
Deletes(operations) == operations \div 65536

\* variant: the height is not clamped
Height_NoClamp(treeDepth) == treeDepth

\* height = btree->treeDepth; if (height < 2) height = 2
Height(treeDepth) == IF treeDepth < 2 THEN 2 ELSE treeDepth

\* rsrvNodes = 1 + (deletes * (height - 2)) + (inserts * (height - 1))
\* (an int; with treeDepth, inserts and deletes in their 16 bits and a depth
\* a b-tree can have, the sum stays far below 2^31)
RsrvNodes(treeDepth, operations) ==
    1 + (Deletes(operations) * (Height(treeDepth) - 2))
      + (Inserts(operations) * (Height(treeDepth) - 1))

\* availNodes = btree->freeNodes - btree->reservedNodes
AvailNodes(bt) == bt.freeNodes - bt.reservedNodes

\* rsrvblks: MIN of 5% of allocLimit and HFS_BT_MAXRESERVE in blocks
RsrvBlks(vol) ==
    LET five == (vol.allocLimit * 5) \div 100
        bt_rsrv == IF vol.blockSize > HFS_BT_MAXRESERVE THEN 1
                   ELSE HFS_BT_MAXRESERVE \div vol.blockSize
    IN  Min(five, bt_rsrv)

\* variant: the test for deletes is left out
InsertOnly_AnyInsert(operations) == Inserts(operations) > 0

\* (inserts > 0) && (deletes == 0)
InsertOnly(operations) == Inserts(operations) > 0 /\ Deletes(operations) = 0

\* CalcMapBits(btree): the nodes the tree's map records can address
CalcMapBits(bt) == bt.mapBits

\* the bits one more map node adds to CalcMapBits
MapNodeBits == 4

\* variant: nothing is held back from the free blocks (rsrvblks is 0)
Admit_NoSafety(bt, vol, clumpsize, operations, freeblks0) ==
    LET rsrvNodes == RsrvNodes(bt.treeDepth, operations)
        availNodes == AvailNodes(bt)
        rsrvblks == 0
        low == freeblks0 <= rsrvblks
        freeblks == IF low THEN 0 ELSE freeblks0 - rsrvblks
        reqblks == clumpsize \div vol.blockSize
        shrink == reqblks > freeblks
        reqblks2 == ((rsrvNodes - availNodes) * bt.nodeSize) \div vol.blockSize
        total0 == rsrvNodes + bt.totalNodes - availNodes
        totalNodes == IF total0 > CalcMapBits(bt) THEN total0 + 1 ELSE total0
    IN  IF low /\ InsertOnly(operations)
        THEN [do |-> "ENOSPC", at |-> "low", clump |-> clumpsize, totalNodes |-> 0]
        ELSE IF shrink /\ reqblks2 > freeblks /\ InsertOnly(operations)
        THEN [do |-> "ENOSPC", at |-> "shrunk", clump |-> clumpsize, totalNodes |-> 0]
        ELSE [do |-> "extend", at |-> "none",
              clump |-> IF shrink THEN freeblks * vol.blockSize ELSE clumpsize,
              totalNodes |-> totalNodes]

\* variant: a clump size above the free blocks refuses an insert-only batch
\* without looking at the shortfall
Admit_NoShortfallTest(bt, vol, clumpsize, operations, freeblks0) ==
    LET rsrvNodes == RsrvNodes(bt.treeDepth, operations)
        availNodes == AvailNodes(bt)
        rsrvblks == RsrvBlks(vol)
        low == freeblks0 <= rsrvblks
        freeblks == IF low THEN 0 ELSE freeblks0 - rsrvblks
        reqblks == clumpsize \div vol.blockSize
        shrink == reqblks > freeblks
        total0 == rsrvNodes + bt.totalNodes - availNodes
        totalNodes == IF total0 > CalcMapBits(bt) THEN total0 + 1 ELSE total0
    IN  IF low /\ InsertOnly(operations)
        THEN [do |-> "ENOSPC", at |-> "low", clump |-> clumpsize, totalNodes |-> 0]
        ELSE IF shrink /\ InsertOnly(operations)
        THEN [do |-> "ENOSPC", at |-> "shrunk", clump |-> clumpsize, totalNodes |-> 0]
        ELSE [do |-> "extend", at |-> "none",
              clump |-> IF shrink THEN freeblks * vol.blockSize ELSE clumpsize,
              totalNodes |-> totalNodes]

\* variant: no node is added for the map
Admit_NoMapNode(bt, vol, clumpsize, operations, freeblks0) ==
    LET rsrvNodes == RsrvNodes(bt.treeDepth, operations)
        availNodes == AvailNodes(bt)
        rsrvblks == RsrvBlks(vol)
        low == freeblks0 <= rsrvblks
        freeblks == IF low THEN 0 ELSE freeblks0 - rsrvblks
        reqblks == clumpsize \div vol.blockSize
        shrink == reqblks > freeblks
        reqblks2 == ((rsrvNodes - availNodes) * bt.nodeSize) \div vol.blockSize
        totalNodes == rsrvNodes + bt.totalNodes - availNodes
    IN  IF low /\ InsertOnly(operations)
        THEN [do |-> "ENOSPC", at |-> "low", clump |-> clumpsize, totalNodes |-> 0]
        ELSE IF shrink /\ reqblks2 > freeblks /\ InsertOnly(operations)
        THEN [do |-> "ENOSPC", at |-> "shrunk", clump |-> clumpsize, totalNodes |-> 0]
        ELSE [do |-> "extend", at |-> "none",
              clump |-> IF shrink THEN freeblks * vol.blockSize ELSE clumpsize,
              totalNodes |-> totalNodes]

\* The body of "if (rsrvNodes > availNodes)" up to the call of ExtendBTree
\* (u_int32_t block counts; every product here stays below 2^31 for the
\* volume of Init, so none wraps):
\* what the call does next ("ENOSPC" or "extend"), the clump size it leaves in
\* file->ff_clumpsize, and the totalNodes it asks ExtendBTree for.
Admit(bt, vol, clumpsize, operations, freeblks0) ==
    LET rsrvNodes == RsrvNodes(bt.treeDepth, operations)
        availNodes == AvailNodes(bt)
        rsrvblks == RsrvBlks(vol)
        low == freeblks0 <= rsrvblks
        freeblks == IF low THEN 0 ELSE freeblks0 - rsrvblks
        reqblks == clumpsize \div vol.blockSize
        shrink == reqblks > freeblks
        reqblks2 == ((rsrvNodes - availNodes) * bt.nodeSize) \div vol.blockSize
        total0 == rsrvNodes + bt.totalNodes - availNodes
        totalNodes == IF total0 > CalcMapBits(bt) THEN total0 + 1 ELSE total0
    IN  IF low /\ InsertOnly(operations)
        THEN [do |-> "ENOSPC", at |-> "low", clump |-> clumpsize, totalNodes |-> 0]
        ELSE IF shrink /\ reqblks2 > freeblks /\ InsertOnly(operations)
        THEN [do |-> "ENOSPC", at |-> "shrunk", clump |-> clumpsize, totalNodes |-> 0]
        ELSE [do |-> "extend", at |-> "none",
              clump |-> IF shrink THEN freeblks * vol.blockSize ELSE clumpsize,
              totalNodes |-> totalNodes]

\* variant: the clump size is left as it is
PutBack_Keep(cur, clumpsize) == cur

\* out: if (file->ff_clumpsize != clumpsize) file->ff_clumpsize = clumpsize
PutBack(cur, clumpsize) == IF cur # clumpsize THEN clumpsize ELSE cur

\* ------------------------------------------------------------ the threads
NoEntry ==
    [totalNodes |-> 0, freeNodes |-> 0, reservedNodes |-> 0, clump |-> 0,
     tbl |-> [b \in Buckets |-> NULL], nr |-> [s \in Slots |-> Zeroed]]

\* hfs_freeblks was not called
NotAsked == -1

\* A thread outside the three calls.  pc is where the thread is; file,
\* operations, data, rsrvNodes, clumpsize, totalNodes, err, nodecnt and nodes
\* are the arguments and locals of the call.  The rest records what the call
\* has done: call names it, path is the way taken through it, found the
\* reserve the hash loop ended on, freeblks what hfs_freeblks answered,
\* extended whether ExtendBTree was called, extclump the ff_clumpsize in
\* effect for it and extret what it returned, and entry the tree's counters,
\* the clump size and the ledger when the call was entered.
IdleThread ==
    [pc |-> "idle", call |-> "none", file |-> NULL, operations |-> 0, data |-> NULL,
     rsrvNodes |-> 0, clumpsize |-> 0, totalNodes |-> 0, err |-> 0,
     nodecnt |-> 0, nodes |-> 0, found |-> NULL,
     path |-> "none", freeblks |-> NotAsked, extended |-> FALSE, extclump |-> 0,
     extret |-> 0, entry |-> NoEntry]

EntryOf(bt, clump, tbl, nr) ==
    [totalNodes |-> bt.totalNodes, freeNodes |-> bt.freeNodes,
     reservedNodes |-> bt.reservedNodes, clump |-> clump, tbl |-> tbl, nr |-> nr]

\* the nodes held in reserve over all trees
Reserved == btree[256].reservedNodes + btree[4352].reservedNodes

\* the control blocks when the volume is mounted: the first tree is a single
\* leaf with room to spare, the second is three levels deep and nearly full
Mounted(t) ==
    IF t = 256
    THEN [treeDepth |-> 1, nodeSize |-> 8192, totalNodes |-> 8,
          freeNodes |-> 6, reservedNodes |-> 0, mapBits |-> 10]
    ELSE [treeDepth |-> 3, nodeSize |-> 8192, totalNodes |-> 6,
          freeNodes |-> 2, reservedNodes |-> 0, mapBits |-> 7]

Init ==
    /\ btree = [t \in Trees |-> Mounted(t)]
    /\ ff_clumpsize = [t \in Trees |-> 32768]
    /\ hfsmp = [allocLimit |-> 1000, blockSize |-> 4096]
    /\ nr_hashtbl = [b \in Buckets |-> NULL]
    /\ nreserve = [s \in Slots |-> Zeroed]
    /\ nr_mutex = NoThread
    /\ fileLock = [t \in Trees |-> NoThread]
    /\ th = [o \in Threads |-> IdleThread]
    /\ aborted = FALSE

\* variant: < for >
NeedsExtend_Lt(rsrvNodes, availNodes) == rsrvNodes < availNodes

\* variant: >= for >
NeedsExtend_Ge(rsrvNodes, availNodes) == rsrvNodes >= availNodes

\* if (rsrvNodes > availNodes)
NeedsExtend(rsrvNodes, availNodes) == rsrvNodes > availNodes

\* variant: the result of ExtendBTree is not tested
GotoOut_Never(err) == FALSE

\* if ((err = ExtendBTree(btree, totalNodes))) goto out
GotoOut(err) == err # 0

\* variant: the nodes are added whether or not the request is persistent
Saved_Always(bt, data, rsrvNodes) ==
    [bt EXCEPT !.reservedNodes = bt.reservedNodes + rsrvNodes]

\* the control block after "if (data) btree->reservedNodes += rsrvNodes"
Saved(bt, data, rsrvNodes) ==
    IF data # NULL THEN [bt EXCEPT !.reservedNodes = bt.reservedNodes + rsrvNodes]
    ELSE bt

\* "if (data)": btree->reservedNodes += rsrvNodes, then into nr_insert, which
\* takes nr_mutex (the step waits for the mutex to be free); otherwise "out:"
\* and return.  bt is the control block after the admission.
SaveOrReturn(o, t, bt, clump) ==
    /\ btree' = [btree EXCEPT ![t.file] = Saved(bt, t.data, t.rsrvNodes)]
    /\ IF t.data # NULL
       THEN /\ nr_mutex = NoThread
            /\ nr_mutex' = o
            /\ ff_clumpsize' = [ff_clumpsize EXCEPT ![t.file] = clump]
            /\ th' = [th EXCEPT ![o] = [t EXCEPT !.pc = "nr_insert"]]
       ELSE /\ nr_mutex' = nr_mutex
            /\ ff_clumpsize' = [ff_clumpsize EXCEPT ![t.file] = PutBack(clump, t.clumpsize)]
            /\ th' = [th EXCEPT ![o] = [t EXCEPT !.pc = "ret", !.err = 0]]

\* variant: a persistent request takes nr_mutex before it calls ExtendBTree
BTReserveSpace_LockEarly(o, file, operations, data, freeblks0) ==
    /\ ~aborted
    /\ th[o].pc = "idle"
    /\ fileLock[file] = NoThread
    /\ LET bt == btree[file]
           clumpsize == ff_clumpsize[file]
           rsrvNodes == RsrvNodes(bt.treeDepth, operations)
           t0 == [IdleThread EXCEPT !.call = "reserve", !.file = file,
                     !.operations = operations, !.data = data,
                     !.rsrvNodes = rsrvNodes, !.clumpsize = clumpsize,
                     !.entry = EntryOf(bt, clumpsize, nr_hashtbl, nreserve)]
       IN  /\ data # NULL => Reserved + rsrvNodes <= MaxReserved
           /\ fileLock' = [fileLock EXCEPT ![file] = o]
           /\ IF NeedsExtend(rsrvNodes, AvailNodes(bt))
              THEN LET adm == Admit(bt, hfsmp, clumpsize, operations, freeblks0)
                       t1 == [t0 EXCEPT !.freeblks = freeblks0]
                   IN  /\ ff_clumpsize' = [ff_clumpsize EXCEPT ![file] = adm.clump]
                       /\ btree' = btree
                       /\ nr_mutex' = IF adm.do = "extend" /\ data # NULL THEN o ELSE nr_mutex
                       /\ th' = [th EXCEPT ![o] =
                             IF adm.do = "ENOSPC"
                             THEN [t1 EXCEPT !.pc = "ret", !.err = ENOSPC, !.path = adm.at]
                             ELSE [t1 EXCEPT !.pc = "ExtendBTree", !.path = "extend",
                                      !.extended = TRUE, !.extclump = adm.clump,
                                      !.totalNodes = adm.totalNodes]]
              ELSE SaveOrReturn(o, [t0 EXCEPT !.path = "proceed"], bt, clumpsize)
    /\ UNCHANGED <<hfsmp, nr_hashtbl, nreserve, aborted>>

\* BTReserveSpace from its entry to the first call that can block or fail:
\* the estimate, the admission, and either a return of ENOSPC, the call of
\* ExtendBTree, or (enough nodes available) the save of the reserve.
\* freeblks0 is what hfs_freeblks answers when it is asked.
BTReserveSpace(o, file, operations, data, freeblks0) ==
    /\ ~aborted
    /\ th[o].pc = "idle"
    /\ fileLock[file] = NoThread
    /\ LET bt == btree[file]
           clumpsize == ff_clumpsize[file]
           rsrvNodes == RsrvNodes(bt.treeDepth, operations)
           t0 == [IdleThread EXCEPT !.call = "reserve", !.file = file,
                     !.operations = operations, !.data = data,
                     !.rsrvNodes = rsrvNodes, !.clumpsize = clumpsize,
                     !.entry = EntryOf(bt, clumpsize, nr_hashtbl, nreserve)]
       IN  /\ data # NULL => Reserved + rsrvNodes <= MaxReserved
           /\ fileLock' = [fileLock EXCEPT ![file] = o]
           /\ IF NeedsExtend(rsrvNodes, AvailNodes(bt))
              THEN LET adm == Admit(bt, hfsmp, clumpsize, operations, freeblks0)
                       t1 == [t0 EXCEPT !.freeblks = freeblks0]
                   IN  /\ ff_clumpsize' = [ff_clumpsize EXCEPT ![file] = adm.clump]
                       /\ btree' = btree
                       /\ nr_mutex' = nr_mutex
                       /\ th' = [th EXCEPT ![o] =
                             IF adm.do = "ENOSPC"
                             THEN [t1 EXCEPT !.pc = "ret", !.err = ENOSPC, !.path = adm.at]
                             ELSE [t1 EXCEPT !.pc = "ExtendBTree", !.path = "extend",
                                      !.extended = TRUE, !.extclump = adm.clump,
                                      !.totalNodes = adm.totalNodes]]
              ELSE SaveOrReturn(o, [t0 EXCEPT !.path = "proceed"], bt, clumpsize)
    /\ UNCHANGED <<hfsmp, nr_hashtbl, nreserve, aborted>>

\* the control block after ExtendBTree(btree, nodes) has grown the tree: the
\* tree has the nodes asked for, and the new ones that new map nodes do not
\* take are free
Extended(bt, nodes) ==
    LET RECURSIVE MapNodes(_)
        MapNodes(k) == IF nodes <= bt.mapBits + (k * MapNodeBits) THEN k ELSE MapNodes(k + 1)
        newMapNodes == MapNodes(0)
    IN  IF nodes <= bt.totalNodes THEN bt
        ELSE [bt EXCEPT !.totalNodes = nodes,
                        !.freeNodes = bt.freeNodes + (nodes - bt.totalNodes) - newMapNodes,
                        !.mapBits = bt.mapBits + (newMapNodes * MapNodeBits)]

\* ExtendBTree returns: ret is its result ("err = ExtendBTree(...)").  On an
\* error "goto out"; otherwise the tree has grown and the reserve is saved.
ExtendBTree(o, ret) ==
    /\ ~aborted
    /\ th[o].pc = "ExtendBTree"
    /\ ret = 0 => th[o].totalNodes <= MaxTotalNodes
    /\ LET t == [th[o] EXCEPT !.extret = ret, !.err = ret]
       IN  IF GotoOut(t.err)
           THEN /\ ff_clumpsize' = [ff_clumpsize EXCEPT ![t.file] =
                                       PutBack(ff_clumpsize[t.file], t.clumpsize)]
                /\ th' = [th EXCEPT ![o] = [t EXCEPT !.pc = "ret"]]
                /\ btree' = btree
                /\ nr_mutex' = nr_mutex
           ELSE SaveOrReturn(o, t, IF ret = 0 THEN Extended(btree[t.file], t.totalNodes)
                                   ELSE btree[t.file],
                             ff_clumpsize[t.file])
    /\ UNCHANGED <<hfsmp, nr_hashtbl, nreserve, fileLock, aborted>>

\* ------------------------------------------------- the node reserve hash
\* variant: a merge stores the new count instead of adding it
NrInsert_NoAdd(tbl, nr, btvp, tag, nrp, nodecnt) ==
    LET tmp_nrp == Lookup(tbl, nr, btvp, tag)
    IN  IF tmp_nrp = Forever THEN [tbl |-> tbl, nr |-> nr, found |-> Forever]
        ELSE IF tmp_nrp # NULL
        THEN LET nr1 == [nr EXCEPT ![nrp].nr_tag = NULL]
                 nr2 == [nr1 EXCEPT ![tmp_nrp].nr_nodecnt = nodecnt]
             IN  [tbl |-> tbl, nr |-> nr2, found |-> tmp_nrp]
        ELSE LET nr1 == [nr EXCEPT ![nrp].nr_nodecnt = nodecnt,
                                   ![nrp].nr_newnodes = 0,
                                   ![nrp].nr_btvp = btvp,
                                   ![nrp].nr_tag = tag]
                 ins == LIST_INSERT_HEAD(tbl, nr1, NR_HASH(btvp, tag), nrp)
             IN  [tbl |-> ins[1], nr |-> ins[2], found |-> NULL]

\* nr_insert between lock and unlock: the loop over the chain, then either the
\* merge into the reserve found or the insertion of nrp.  found is the reserve
\* merged into, NULL after an insertion, Forever when the loop never ends.
NrInsert(tbl, nr, btvp, tag, nrp, nodecnt) ==
    LET tmp_nrp == Lookup(tbl, nr, btvp, tag)
    IN  IF tmp_nrp = Forever THEN [tbl |-> tbl, nr |-> nr, found |-> Forever]
        ELSE IF tmp_nrp # NULL
        THEN LET nr1 == [nr EXCEPT ![nrp].nr_tag = NULL]
                 nr2 == [nr1 EXCEPT ![tmp_nrp].nr_nodecnt = @ + nodecnt]
             IN  [tbl |-> tbl, nr |-> nr2, found |-> tmp_nrp]
        ELSE LET nr1 == [nr EXCEPT ![nrp].nr_nodecnt = nodecnt,
                                   ![nrp].nr_newnodes = 0,
                                   ![nrp].nr_btvp = btvp,
                                   ![nrp].nr_tag = tag]
                 ins == LIST_INSERT_HEAD(tbl, nr1, NR_HASH(btvp, tag), nrp)
             IN  [tbl |-> ins[1], nr |-> ins[2], found |-> NULL]

\* variant: a structure with a cleared tag reports the count it still holds
NrDelete_StaleCount(tbl, nr, btvp, tag, nrp) ==
    IF nr[nrp].nr_tag # NULL
    THEN IF nr[nrp].nr_tag # tag \/ nr[nrp].nr_btvp # btvp
         THEN [tbl |-> tbl, nr |-> nr, nodecnt |-> 0, assert |-> TRUE]
         ELSE LET rem == LIST_REMOVE(tbl, nr, nrp)
              IN  [tbl |-> rem[1], nr |-> [rem[2] EXCEPT ![nrp] = Zeroed],
                   nodecnt |-> rem[2][nrp].nr_nodecnt, assert |-> FALSE]
    ELSE [tbl |-> tbl, nr |-> nr, nodecnt |-> nr[nrp].nr_nodecnt, assert |-> FALSE]

\* variant: the owner and the tree of the structure are not tested
NrDelete_NoOwnerTest(tbl, nr, btvp, tag, nrp) ==
    IF nr[nrp].nr_tag # NULL
    THEN LET rem == LIST_REMOVE(tbl, nr, nrp)
         IN  [tbl |-> rem[1], nr |-> [rem[2] EXCEPT ![nrp] = Zeroed],
              nodecnt |-> rem[2][nrp].nr_nodecnt, assert |-> FALSE]
    ELSE [tbl |-> tbl, nr |-> nr, nodecnt |-> 0, assert |-> FALSE]

\* nr_delete between lock and unlock.  assert: hfs_assert(0) was reached.
NrDelete(tbl, nr, btvp, tag, nrp) ==
    IF nr[nrp].nr_tag # NULL
    THEN IF nr[nrp].nr_tag # tag \/ nr[nrp].nr_btvp # btvp
         THEN [tbl |-> tbl, nr |-> nr, nodecnt |-> 0, assert |-> TRUE]
         ELSE LET rem == LIST_REMOVE(tbl, nr, nrp)
              IN  [tbl |-> rem[1], nr |-> [rem[2] EXCEPT ![nrp] = Zeroed],
                   nodecnt |-> rem[2][nrp].nr_nodecnt, assert |-> FALSE]
    ELSE [tbl |-> tbl, nr |-> nr, nodecnt |-> 0, assert |-> FALSE]

\* variant: the nodes are added to the count held in reserve
NrUpdate_AddsCount(tbl, nr, btvp, tag, nodecnt) ==
    LET nrp == Lookup(tbl, nr, btvp, tag)
    IN  IF nrp = Forever THEN [nr |-> nr, found |-> Forever]
        ELSE IF nrp # NULL
        THEN [nr |-> [nr EXCEPT ![nrp].nr_nodecnt = @ + nodecnt], found |-> nrp]
        ELSE [nr |-> nr, found |-> NULL]

\* nr_update between lock and unlock
NrUpdate(tbl, nr, btvp, tag, nodecnt) ==
    LET nrp == Lookup(tbl, nr, btvp, tag)
    IN  IF nrp = Forever THEN [nr |-> nr, found |-> Forever]
        ELSE IF nrp # NULL
        THEN [nr |-> [nr EXCEPT ![nrp].nr_newnodes = @ + nodecnt], found |-> nrp]
        ELSE [nr |-> nr, found |-> NULL]

\* the body of nr_insert under nr_mutex, the unlock, and BTReserveSpace's
\* "out:" and return.  A loop that never ends keeps the thread, and the mutex.
nr_insert(o) ==
    /\ ~aborted
    /\ th[o].pc = "nr_insert"
    /\ LET t == th[o]
           r == NrInsert(nr_hashtbl, nreserve, t.file, o, t.data, t.rsrvNodes)
       IN  IF r.found = Forever
           THEN /\ th' = [th EXCEPT ![o].pc = "spin", ![o].found = Forever]
                /\ UNCHANGED <<nr_hashtbl, nreserve, nr_mutex, ff_clumpsize>>
           ELSE /\ nr_hashtbl' = r.tbl
                /\ nreserve' = r.nr
                /\ nr_mutex' = NoThread
                /\ ff_clumpsize' = [ff_clumpsize EXCEPT ![t.file] =
                                       PutBack(ff_clumpsize[t.file], t.clumpsize)]
                /\ th' = [th EXCEPT ![o].pc = "ret", ![o].found = r.found]
    /\ UNCHANGED <<btree, hfsmp, fileLock, aborted>>

\* BTReleaseReserve into nr_delete, which takes nr_mutex
BTReleaseReserve(o, file, data) ==
    /\ ~aborted
    /\ th[o].pc = "idle"
    /\ fileLock[file] = NoThread
    /\ nr_mutex = NoThread
    /\ nr_mutex' = o
    /\ fileLock' = [fileLock EXCEPT ![file] = o]
    /\ th' = [th EXCEPT ![o] =
                 [IdleThread EXCEPT !.pc = "nr_delete", !.call = "release",
                     !.file = file, !.data = data,
                     !.entry = EntryOf(btree[file], ff_clumpsize[file], nr_hashtbl, nreserve)]]
    /\ UNCHANGED <<btree, ff_clumpsize, hfsmp, nr_hashtbl, nreserve, aborted>>

\* hfs_assert(expr) (defined outside this file): whether it ends the process,
\* which it does when expr is 0
hfs_assert(expr) == expr = 0

\* the body of nr_delete under nr_mutex, the unlock, and the rest of
\* BTReleaseReserve: "if (nodecnt) btree->reservedNodes -= nodecnt"
nr_delete(o) ==
    /\ ~aborted
    /\ th[o].pc = "nr_delete"
    /\ LET t == th[o]
           r == NrDelete(nr_hashtbl, nreserve, t.file, o, t.data)
       IN  IF r.assert
           THEN /\ aborted' = hfs_assert(0)
                /\ th' = [th EXCEPT ![o].path = "assert"]
                /\ UNCHANGED <<nr_hashtbl, nreserve, nr_mutex, btree>>
           ELSE /\ nr_hashtbl' = r.tbl
                /\ nreserve' = r.nr
                /\ nr_mutex' = NoThread
                /\ btree' = IF r.nodecnt # 0
                            THEN [btree EXCEPT ![t.file].reservedNodes = @ - r.nodecnt]
                            ELSE btree
                /\ th' = [th EXCEPT ![o].pc = "ret", ![o].nodecnt = r.nodecnt,
                                    ![o].err = 0,
                                    ![o].path = IF t.data \in Slots /\ nreserve[t.data].nr_tag = NULL
                                                THEN "cleared" ELSE "removed"]
                /\ aborted' = aborted
    /\ UNCHANGED <<ff_clumpsize, hfsmp, fileLock>>

\* BTUpdateReserve into nr_update, which takes nr_mutex
BTUpdateReserve(o, file, nodes) ==
    /\ ~aborted
    /\ th[o].pc = "idle"
    /\ nr_mutex = NoThread
    /\ nr_mutex' = o
    /\ LET nrp == Lookup(nr_hashtbl, nreserve, file, o)
       IN  nrp \in Slots => nreserve[nrp].nr_newnodes + nodes <= MaxNewNodes
    /\ th' = [th EXCEPT ![o] =
                 [IdleThread EXCEPT !.pc = "nr_update", !.call = "update",
                     !.file = file, !.nodes = nodes,
                     !.entry = EntryOf(btree[file], ff_clumpsize[file], nr_hashtbl, nreserve)]]
    /\ UNCHANGED <<btree, ff_clumpsize, hfsmp, nr_hashtbl, nreserve, fileLock, aborted>>

\* the body of nr_update under nr_mutex, and the unlock
nr_update(o) ==
    /\ ~aborted
    /\ th[o].pc = "nr_update"
    /\ LET t == th[o]
           r == NrUpdate(nr_hashtbl, nreserve, t.file, o, t.nodes)
       IN  IF r.found = Forever
           THEN /\ th' = [th EXCEPT ![o].pc = "spin", ![o].found = Forever]
                /\ UNCHANGED <<nreserve, nr_mutex>>
           ELSE /\ nreserve' = r.nr
                /\ nr_mutex' = NoThread
                /\ th' = [th EXCEPT ![o].pc = "ret", ![o].found = r.found]
    /\ UNCHANGED <<btree, ff_clumpsize, hfsmp, nr_hashtbl, fileLock, aborted>>

\* the call returns to the catalog layer, which drops the tree's lock
Return(o) ==
    /\ ~aborted
    /\ th[o].pc = "ret"
    /\ th' = [th EXCEPT ![o] = IdleThread]
    /\ fileLock' = [t \in Trees |-> IF fileLock[t] = o THEN NoThread ELSE fileLock[t]]
    /\ UNCHANGED <<btree, ff_clumpsize, hfsmp, nr_hashtbl, nreserve, nr_mutex, aborted>>

\* no other thread is inside a call (one that spins forever aside)
Quiet(o) == \A p \in Threads \ {o} : th[p].pc \in {"idle", "spin"}

\* The calls of the threads one after the other, in any order: a call runs
\* to its return before the next one starts.
Next ==
    \/ \E o \in Threads, freeblks0 \in FreeBlks :
          \E file \in Files(o), operations \in Ops(o), data \in Data(o) :
             Quiet(o) /\ BTReserveSpace(o, file, operations, data, freeblks0)
    \/ \E o \in Threads, err \in ExtendErrs \cup {0} : ExtendBTree(o, err)
    \/ \E o \in Threads : nr_insert(o)
    \/ \E o \in Threads, data \in Slots :
          \E file \in Files(o) : Quiet(o) /\ BTReleaseReserve(o, file, data)
    \/ \E o \in Threads : nr_delete(o)
    \/ \E o \in UpdateThreads, file \in UpdateFiles, nodes \in UpdateNodes :
          Quiet(o) /\ BTUpdateReserve(o, file, nodes)
    \/ \E o \in Threads : nr_update(o)
    \/ \E o \in Threads : Return(o)

Spec == Init /\ [][Next]_vars

\* ------------------------------------------------------ concurrent calls
\* The calls of the threads interleaved step by step: a thread may enter a
\* call while the other is inside one (on another tree, or waiting for the
\* tree's lock or for nr_mutex).
NextConc ==
    \/ \E o \in Threads, freeblks0 \in FreeBlks :
          \E file \in Files(o), operations \in Ops(o), data \in Data(o) :
             Reserved < MaxBusyReserved
                /\ BTReserveSpace(o, file, operations, data, freeblks0)
    \/ \E o \in Threads, err \in ExtendErrs \cup {0} : ExtendBTree(o, err)
    \/ \E o \in Threads : nr_insert(o)
    \/ \E o \in Threads, data \in Slots :
          \E file \in Files(o) : BTReleaseReserve(o, file, data)
    \/ \E o \in Threads : nr_delete(o)
    \/ \E o \in UpdateThreads, file \in UpdateFiles, nodes \in UpdateNodes :
          BTUpdateReserve(o, file, nodes)
    \/ \E o \in Threads : nr_update(o)
    \/ \E o \in Threads : Return(o)

SpecConc == Init /\ [][NextConc]_vars

\* ------------------------------------------------- the estimate on its own
\* the operations words with up to MaxInserts inserts and MaxDeletes deletes
EstOperations == {Pack(i, d) : i \in 0..MaxInserts, d \in 0..MaxDeletes}

\* the volume mounted with trees of any depth up to MaxHeight (0: no root yet)
InitEst ==
    /\ \E h \in 0..MaxHeight :
          btree = [t \in Trees |-> [Mounted(t) EXCEPT !.treeDepth = h]]
    /\ ff_clumpsize = [t \in Trees |-> 32768]
    /\ hfsmp = [allocLimit |-> 1000, blockSize |-> 4096]
    /\ nr_hashtbl = [b \in Buckets |-> NULL]
    /\ nreserve = [s \in Slots |-> Zeroed]
    /\ nr_mutex = NoThread
    /\ fileLock = [t \in Trees |-> NoThread]
    /\ th = [o \in Threads |-> IdleThread]
    /\ aborted = FALSE

\* one thread asks, without a structure to save the reserve in, for the space
\* of every such batch of operations
NextEst ==
    \/ \E file \in Trees, operations \in EstOperations, freeblks0 \in FreeBlks :
          BTReserveSpace(16, file, operations, NULL, freeblks0)
    \/ \E err \in ExtendErrs \cup {0} : ExtendBTree(16, err)
    \/ Return(16)

SpecEst == InitEst /\ [][NextEst]_vars

\* ------------------------------------------------------------ properties
\* the reserves of tree t and thread o that are on a hash chain
RecordsOf(tbl, nr, t, o) ==
    {s \in Linked(tbl, nr) : nr[s].nr_tag = o /\ nr[s].nr_btvp = t}

\* the sum of nr_nodecnt over a set of reserves
RECURSIVE SumNodecnt(_, _)
SumNodecnt(nr, S) ==
    IF S = {} THEN 0
    ELSE LET s == CHOOSE x \in S : TRUE
         IN  nr[s].nr_nodecnt + SumNodecnt(nr, S \ {s})

\* thread o has come to the return of a call of this name
Returned(o, call) == th[o].pc = "ret" /\ th[o].call = call

\* C1: Merging.  A persistent reserve that finds no reserve of (tree, thread)
\* leaves its own structure as the one record of the pair, holding the
\* estimate; a later one with another structure B, found to merge into record
\* A, leaves A the one record of the pair with the estimate added to its
\* count, and B's tag cleared.  A release of A then reports A's count, takes
\* it off btree->reservedNodes and leaves no record of the pair, A zeroed; and
\* a release of a structure with a cleared tag reports 0.
C1_Merging ==
    \A o \in Threads :
        LET t == th[o]
            now == RecordsOf(nr_hashtbl, nreserve, t.file, o)
        IN  /\ (Returned(o, "reserve") /\ t.data # NULL /\ t.err = 0 /\ t.found = NULL)
                => /\ now = {t.data}
                   /\ nreserve[t.data].nr_nodecnt = t.rsrvNodes
            /\ (Returned(o, "reserve") /\ t.found \in Slots /\ t.found # t.data)
                => /\ now = {t.found}
                   /\ nreserve[t.found].nr_nodecnt =
                          t.entry.nr[t.found].nr_nodecnt + t.rsrvNodes
                   /\ nreserve[t.data].nr_tag = NULL
            /\ (Returned(o, "release") /\ t.entry.nr[t.data].nr_tag # NULL)
                => /\ t.nodecnt = t.entry.nr[t.data].nr_nodecnt
                   /\ btree[t.file].reservedNodes = t.entry.reservedNodes - t.nodecnt
                   /\ now = {}
                   /\ nreserve[t.data] = Zeroed
            /\ (Returned(o, "release") /\ t.entry.nr[t.data].nr_tag = NULL)
                => t.nodecnt = 0

\* a release on the first tree has reported 3 nodes; an estimate there is 1
\* or 2, so the record released had been merged into
C1_Witness ==
    \E o \in Threads :
        /\ Returned(o, "release")
        /\ th[o].file = 256
        /\ th[o].nodecnt = 3
        /\ th[o].entry.nr[th[o].data].nr_tag = o

\* C2: between calls (no thread holds the tree's lock), btree->reservedNodes
\* is its initial value, 0, plus the sum of nr_nodecnt over the reserves of
\* the tree that are linked in the ledger.
C2_ReservedIsSum ==
    \A t \in Trees :
        fileLock[t] = NoThread =>
            btree[t].reservedNodes =
                SumNodecnt(nreserve, {s \in Linked(nr_hashtbl, nreserve) :
                                          nreserve[s].nr_btvp = t})

\* C3: Idempotent release.  BTReleaseReserve on a structure whose tag is
\* cleared reports 0 nodes freed, returns 0, and leaves btree->reservedNodes,
\* every struct nreserve and every hash chain as they were.
C3_IdempotentRelease ==
    \A o \in Threads :
        LET t == th[o]
        IN  (Returned(o, "release") /\ t.entry.nr[t.data].nr_tag = NULL)
                => /\ t.nodecnt = 0
                   /\ t.err = 0
                   /\ btree[t.file].reservedNodes = t.entry.reservedNodes
                   /\ nreserve = t.entry.nr
                   /\ nr_hashtbl = t.entry.tbl

\* a structure with a cleared tag has been released while a record of the
\* same tree and thread, in another structure, is linked
C3_Witness ==
    \E o \in Threads :
        /\ Returned(o, "release")
        /\ th[o].entry.nr[th[o].data].nr_tag = NULL
        /\ \E s \in RecordsOf(nr_hashtbl, nreserve, th[o].file, o) : s # th[o].data

\* the nodes available when the call of thread o was entered
EntryAvail(o) == th[o].entry.freeNodes - th[o].entry.reservedNodes

\* thread o is inside a call of BTReserveSpace, or at its return
InReserve(o) == th[o].call = "reserve" /\ th[o].pc # "idle"

\* the tree's counters are as they were when thread o entered its call
SameCounters(o) ==
    /\ btree[th[o].file].reservedNodes = th[o].entry.reservedNodes
    /\ btree[th[o].file].totalNodes = th[o].entry.totalNodes
    /\ btree[th[o].file].freeNodes = th[o].entry.freeNodes

\* every struct nreserve and every hash chain is as it was then
SameLedger(o) ==
    /\ nreserve = th[o].entry.nr
    /\ nr_hashtbl = th[o].entry.tbl

\* C4: when BTReserveSpace returns, on whatever path, file->ff_clumpsize is
\* what it was when the call was entered.
C4_ClumpRestored ==
    \A o \in Threads :
        Returned(o, "reserve") => ff_clumpsize[th[o].file] = th[o].entry.clump

\* a call has returned success after an ExtendBTree that ran with a clump
\* size other than the one the call was entered with
C4_Witness ==
    \E o \in Threads :
        /\ Returned(o, "reserve")
        /\ th[o].extended
        /\ th[o].extclump # th[o].entry.clump
        /\ th[o].err = 0

\* C5: when ExtendBTree fails, BTReserveSpace returns the very value
\* ExtendBTree returned, btree->reservedNodes is unchanged, no reserve is
\* inserted or merged, and ff_clumpsize is restored.
C5_ExtendFailure ==
    \A o \in Threads :
        (Returned(o, "reserve") /\ th[o].extended /\ th[o].extret # 0)
            => /\ th[o].err = th[o].extret
               /\ btree[th[o].file].reservedNodes = th[o].entry.reservedNodes
               /\ SameLedger(o)
               /\ ff_clumpsize[th[o].file] = th[o].entry.clump

\* a persistent request has returned after a failed ExtendBTree that ran with
\* a shrunk clump size
C5_Witness ==
    \E o \in Threads :
        /\ Returned(o, "reserve")
        /\ th[o].extended
        /\ th[o].extret # 0
        /\ th[o].data # NULL
        /\ th[o].extclump # th[o].entry.clump

\* C6: an insert-only batch whose estimate exceeds the available nodes, with
\* the volume's free blocks at or below the blocks held back, returns ENOSPC
\* at once: ExtendBTree is not called, and the counters, the ledger and
\* ff_clumpsize are unchanged.
C6_LowSpaceRefusal ==
    \A o \in Threads :
        (/\ InReserve(o)
         /\ th[o].rsrvNodes > EntryAvail(o)
         /\ Inserts(th[o].operations) > 0
         /\ Deletes(th[o].operations) = 0
         /\ th[o].freeblks <= RsrvBlks(hfsmp))
            => /\ th[o].pc = "ret"
               /\ th[o].err = ENOSPC
               /\ ~th[o].extended
               /\ SameCounters(o)
               /\ SameLedger(o)
               /\ ff_clumpsize[th[o].file] = th[o].entry.clump

\* a persistent insert-only request has been refused with the free blocks
\* below the blocks held back
C6_Witness ==
    \E o \in Threads :
        /\ Returned(o, "reserve")
        /\ th[o].err = ENOSPC
        /\ th[o].data # NULL
        /\ Inserts(th[o].operations) > 0
        /\ th[o].freeblks # NotAsked
        /\ th[o].freeblks < RsrvBlks(hfsmp)

\* C7: a batch with a delete is never refused by the admission: it is saved
\* without an extension or it reaches ExtendBTree; and a return of ENOSPC
\* without a call of ExtendBTree means inserts > 0, deletes = 0 and an
\* estimate above the available nodes.
C7_DeletesNeverRefused ==
    \A o \in Threads :
        InReserve(o) =>
            /\ Deletes(th[o].operations) > 0
                  => (th[o].extended \/ th[o].path = "proceed")
            /\ (th[o].pc = "ret" /\ th[o].err = ENOSPC /\ ~th[o].extended)
                  => /\ Inserts(th[o].operations) > 0
                     /\ Deletes(th[o].operations) = 0
                     /\ th[o].rsrvNodes > EntryAvail(o)

\* a batch of an insert and a delete has reached ExtendBTree with the free
\* blocks below the blocks held back
C7_Witness ==
    \E o \in Threads :
        /\ InReserve(o)
        /\ Deletes(th[o].operations) > 0
        /\ Inserts(th[o].operations) > 0
        /\ th[o].extended
        /\ th[o].freeblks # NotAsked
        /\ th[o].freeblks < RsrvBlks(hfsmp)

\* C8: with freeNodes - reservedNodes >= the estimate at entry, ExtendBTree
\* is not called (nor is hfs_freeblks asked), the call returns 0, and
\* ff_clumpsize, totalNodes and freeNodes stay as they were.
C8_EnoughAvailable ==
    \A o \in Threads :
        (InReserve(o) /\ EntryAvail(o) >= th[o].rsrvNodes)
            => /\ ~th[o].extended
               /\ th[o].freeblks = NotAsked
               /\ th[o].pc # "ExtendBTree"
               /\ ff_clumpsize[th[o].file] = th[o].entry.clump
               /\ btree[th[o].file].totalNodes = th[o].entry.totalNodes
               /\ btree[th[o].file].freeNodes = th[o].entry.freeNodes
               /\ th[o].pc = "ret" => th[o].err = 0

\* a persistent request whose estimate is exactly the available nodes has
\* returned
C8_Witness ==
    \E o \in Threads :
        /\ Returned(o, "reserve")
        /\ EntryAvail(o) = th[o].rsrvNodes
        /\ th[o].data # NULL

\* C9: the nodes BTReserveSpace reserves are
\* 1 + d * (max(h, 2) - 2) + i * (max(h, 2) - 1), for the tree's depth h, the
\* low 16 bits i of operations and the bits d above them.
C9_Estimate ==
    \A o \in Threads :
        InReserve(o) =>
            LET h == btree[th[o].file].treeDepth
                m == IF h > 2 THEN h ELSE 2
                i == th[o].operations % 65536
                d == th[o].operations \div 65536
            IN  th[o].rsrvNodes = 1 + (d * (m - 2)) + (i * (m - 1))

\* a batch of several inserts and several deletes on a tree of depth 0
C9_Witness ==
    \E o \in Threads :
        /\ InReserve(o)
        /\ btree[th[o].file].treeDepth = 0
        /\ th[o].operations % 65536 >= 2
        /\ th[o].operations \div 65536 >= 2

\* C10: a call with data = NULL leaves btree->reservedNodes, every struct
\* nreserve and every hash chain as they were, on every path.
C10_NonPersistent ==
    \A o \in Threads :
        (InReserve(o) /\ th[o].data = NULL)
            => /\ btree[th[o].file].reservedNodes = th[o].entry.reservedNodes
               /\ SameLedger(o)

\* a call with data = NULL has returned success after extending a tree that
\* has nodes in reserve
C10_Witness ==
    \E o \in Threads :
        /\ Returned(o, "reserve")
        /\ th[o].data = NULL
        /\ th[o].extended
        /\ th[o].err = 0
        /\ btree[th[o].file].reservedNodes > 0
        /\ btree[th[o].file].totalNodes > th[o].entry.totalNodes

\* C11: BTUpdateReserve(tree, n) adds n to nr_newnodes of the calling
\* thread's record for the tree when there is one and writes nothing when
\* there is none; the tree's counters, the hash chains and every other field
\* of every struct nreserve are as they were.
C11_UpdateFrame ==
    \A o \in Threads :
        LET t == th[o]
            had == RecordsOf(t.entry.tbl, t.entry.nr, t.file, o)
        IN  Returned(o, "update") =>
                /\ SameCounters(o)
                /\ nr_hashtbl = t.entry.tbl
                /\ had = {} => (t.found = NULL /\ nreserve = t.entry.nr)
                /\ had # {} =>
                      /\ t.found \in had
                      /\ nreserve = [t.entry.nr EXCEPT ![t.found].nr_newnodes = @ + t.nodes]

\* an update has found the thread's record while a record of another tree
\* is linked on the same chain
C11_Witness ==
    \E o \in Threads :
        /\ Returned(o, "update")
        /\ th[o].found \in Slots
        /\ nreserve[th[o].found].nr_newnodes > 0
        /\ \E s \in Linked(nr_hashtbl, nreserve) : nreserve[s].nr_btvp # th[o].file

\* the links (bucket heads and le_next of linked structures) that point to s
LinksTo(tbl, nr, s) ==
    Cardinality({b \in Buckets : tbl[b] = s})
        + Cardinality({x \in Linked(tbl, nr) : nr[x].le_next = s})

\* at most one linked structure for each (vnode, tag) pair
OnePerPair ==
    \A t \in Trees, o \in Threads :
        Cardinality(RecordsOf(nr_hashtbl, nreserve, t, o)) <= 1

\* C12: between the steps of the calls, the ledger holds at most one record
\* for each (tree, thread) pair, and every struct nreserve is linked at most
\* once: at most one bucket head or le_next points to it.
C12_OneRecordOnce ==
    /\ OnePerPair
    /\ \A s \in Slots : LinksTo(nr_hashtbl, nreserve, s) <= 1

\* thread o is releasing a structure whose tag is set and whose tag or vnode
\* is not the thread's tag or the tree passed in
Mismatched(o) ==
    /\ th[o].call = "release"
    /\ th[o].entry.nr[th[o].data].nr_tag # NULL
    /\ \/ th[o].entry.nr[th[o].data].nr_tag # o
       \/ th[o].entry.nr[th[o].data].nr_btvp # th[o].file

\* C13: a release of a structure with a set tag whose owner or tree is not
\* the caller's ends in hfs_assert(0): the call does not return, reports no
\* nodes, and neither btree->reservedNodes of any tree nor the ledger changes.
C13_MismatchAsserts ==
    \A o \in Threads :
        Mismatched(o) =>
            /\ th[o].pc = "nr_delete"
            /\ th[o].nodecnt = 0
            /\ th[o].path = "assert" <=> aborted
            /\ btree[th[o].file].reservedNodes = th[o].entry.reservedNodes
            /\ SameLedger(o)

\* a thread has run into the assertion releasing a structure that holds
\* another thread's reserve
C13_Witness ==
    \E o \in Threads :
        /\ Mismatched(o)
        /\ aborted
        /\ th[o].entry.nr[th[o].data].nr_tag \in Threads \ {o}
        /\ th[o].entry.nr[th[o].data].nr_nodecnt > 0

\* thread o is inside one of the node reserve hash routines
InLedger(o) == th[o].pc \in {"nr_insert", "nr_delete", "nr_update", "spin"}

\* C14: nr_mutex is never held by a thread that is inside ExtendBTree: a
\* thread holds it only inside nr_insert, nr_delete or nr_update; and while
\* one thread is inside ExtendBTree another thread that holds nr_mutex can
\* take its step through the ledger, and an idle one can enter a release on
\* another tree.
C14_NoLockAcrossExtend ==
    \A o \in Threads :
        /\ th[o].pc = "ExtendBTree" => nr_mutex # o
        /\ nr_mutex = o => InLedger(o)
        /\ (th[o].pc = "ExtendBTree" /\ ~aborted) =>
              \A p \in Threads \ {o} :
                  /\ th[p].pc = "nr_insert" => ENABLED nr_insert(p)
                  /\ th[p].pc = "nr_delete" => ENABLED nr_delete(p)
                  /\ th[p].pc = "nr_update" => ENABLED nr_update(p)
                  /\ th[p].pc = "idle" =>
                        \A file \in Files(p) \ {th[o].file}, data \in Slots :
                            ENABLED BTReleaseReserve(p, file, data)

\* a thread is inside ExtendBTree for a persistent request on one tree while
\* another thread holds nr_mutex inside nr_delete for another tree
C14_Witness ==
    \E o \in Threads, p \in Threads :
        /\ o # p
        /\ th[o].pc = "ExtendBTree"
        /\ th[o].data # NULL
        /\ th[p].pc = "nr_delete"
        /\ nr_mutex = p
        /\ th[p].file # th[o].file

\* the free blocks left to thread o's call once the blocks held back are
\* taken off what hfs_freeblks answered
AdjustedFree(o) ==
    IF th[o].freeblks <= RsrvBlks(hfsmp) THEN 0 ELSE th[o].freeblks - RsrvBlks(hfsmp)

\* the clump size at entry, in blocks
ClumpBlocks(o) == th[o].entry.clump \div hfsmp.blockSize

\* the shortfall in blocks: ((estimate - available) * nodeSize) / blockSize
ShortfallBlocks(o) ==
    ((th[o].rsrvNodes - EntryAvail(o)) * btree[th[o].file].nodeSize) \div hfsmp.blockSize

\* C15: when ExtendBTree is called and the clump size in blocks exceeds the
\* adjusted free blocks, the clump size in effect for ExtendBTree is exactly
\* the shortfall in blocks.
C15_ShrunkToShortfall ==
    \A o \in Threads :
        (th[o].call = "reserve" /\ th[o].extended /\ ClumpBlocks(o) > AdjustedFree(o))
            => th[o].extclump = ShortfallBlocks(o) * hfsmp.blockSize

\* C16: an insert-only batch that needs an extension, with adjusted free
\* blocks above 0, gets ENOSPC without a call of ExtendBTree exactly when the
\* clump size in blocks and the shortfall in blocks both exceed the adjusted
\* free blocks; otherwise ExtendBTree is called.
C16_ShrunkRefusal ==
    \A o \in Threads :
        (/\ InReserve(o)
         /\ th[o].rsrvNodes > EntryAvail(o)
         /\ Inserts(th[o].operations) > 0
         /\ Deletes(th[o].operations) = 0
         /\ AdjustedFree(o) > 0)
            => IF ClumpBlocks(o) > AdjustedFree(o) /\ ShortfallBlocks(o) > AdjustedFree(o)
               THEN th[o].pc = "ret" /\ th[o].err = ENOSPC /\ ~th[o].extended
               ELSE th[o].extended

\* an insert-only batch has been refused with free blocks left, and before
\* it a reserve was saved on the same tree
C16_Witness ==
    \E o \in Threads :
        /\ Returned(o, "reserve")
        /\ th[o].err = ENOSPC
        /\ ~th[o].extended
        /\ AdjustedFree(o) > 0
        /\ th[o].entry.reservedNodes > 0

\* the nodes the tree of thread o's call must have to hold the estimate:
\* estimate + totalNodes - (freeNodes - reservedNodes)
NodesNeeded(o) == th[o].rsrvNodes + th[o].entry.totalNodes - EntryAvail(o)

\* C17: the node count passed to ExtendBTree is
\* estimate + totalNodes - (freeNodes - reservedNodes), plus one exactly when
\* that exceeds what the tree's map can address now.
C17_ExtendTarget ==
    \A o \in Threads :
        th[o].pc = "ExtendBTree" =>
            th[o].totalNodes =
                IF NodesNeeded(o) > btree[th[o].file].mapBits
                THEN NodesNeeded(o) + 1
                ELSE NodesNeeded(o)

\* ExtendBTree is called for one node more than needed, on a tree that has
\* nodes in reserve
C17_Witness ==
    \E o \in Threads :
        /\ th[o].pc = "ExtendBTree"
        /\ th[o].totalNodes = NodesNeeded(o) + 1
        /\ th[o].entry.reservedNodes > 0

C19_GivenBack ==
    \A o \in Threads :
        (/\ Returned(o, "release")
         /\ th[o].data \in Linked(th[o].entry.tbl, th[o].entry.nr)
         /\ \A s \in Slots : nreserve[s].nr_tag = NULL)
            => /\ btree[th[o].file].reservedNodes = 0
               /\ {s \in Linked(nr_hashtbl, nreserve) : nreserve[s].nr_btvp = th[o].file} = {}

\* C20: every ledger routine leaves its loop and unlocks nr_mutex before it
\* returns, so that no call stays inside the ledger for ever (with fair
\* scheduling and ExtendBTree returning, every call then returns), and
\* nr_mutex is held only by a thread that is inside a ledger routine.
C20_LockReleased ==
    /\ \A o \in Threads : th[o].pc # "spin"
    /\ \A o \in Threads : nr_mutex = o => th[o].pc \in {"nr_insert", "nr_delete", "nr_update"}

====
